---- MODULE Spec2Model ----
(***************************************************************************)
(* Model of design-match-vision: the Express server (backend/server.js),   *)
(* compareImages (compare.js), downloadImage (downloadImage.js),           *)
(* takeScreenshot (screenshot.js) and the client page (Index.tsx).         *)
(*                                                                         *)
(* Requests are handled by async handlers; every `await` is a point where  *)
(* another request's handler may run, so each awaited operation is one     *)
(* action.  All requests share the files of the assets directory.          *)
(*                                                                         *)
(* Numbers: a JS number is Num(v), v in units of 0.0001; NaN is NaN.       *)
(* A decimal string produced by toFixed(2) is Str2(h), h in hundredths.    *)
(***************************************************************************)
EXTENDS Integers, Sequences, FiniteSets, TLC

\* ------------------------------------------------------------------ bounds
NReq == 2

Reqs == 1..NReq

\* The request (or caller) that specifications about a single request follow.
TheCaller == CHOOSE r \in Reqs : \A q \in Reqs : r <= q

\* ------------------------------------------------------------- JS values
Undefined == [t |-> "undefined"]
NaN == [t |-> "NaN"]
Num(v) == [t |-> "number", v |-> v]
Str2(h) == [t |-> "string", nan |-> FALSE, hund |-> h]
StrNaN == [t |-> "string", nan |-> TRUE, hund |-> 0]

\* parseFloat(x): a decimal string parses to its value, a number to itself,
\* anything else (undefined, "NaN") to NaN.
parseFloat(x) ==
  IF x.t = "number" THEN x
  ELSE IF x.t = "string" /\ ~x.nan THEN Num(x.hund * 100)
  ELSE NaN

\* Number.prototype.toFixed(2): rounds to two decimals; NaN gives "NaN".
toFixed2(x) ==
  IF x.t = "number" THEN Str2((x.v + 50) \div 100) ELSE StrNaN

\* 100 - x on JS numbers.
Minus100(x) ==
  IF x.t = "number" THEN Num(1000000 - x.v) ELSE NaN

\* ----------------------------------------------------------------- images
\* A file's bytes either decode to a raster image (here: a solid colour of a
\* given size) or do not decode at all.
Colours == {"black", "white"}
Solid(w, h, c) == [ok |-> TRUE, w |-> w, h |-> h, c |-> c]
Undecodable == [ok |-> FALSE, w |-> 0, h |-> 0, c |-> "none"]
EmptyFile == [ok |-> FALSE, w |-> 0, h |-> 0, c |-> "empty"]
NoFile == [ok |-> FALSE, w |-> 0, h |-> 0, c |-> "absent"]

Max(a, b) == IF a > b THEN a ELSE b
Min(a, b) == IF a < b THEN a ELSE b

\* ------------------------------------------------- compare.js: the options
\* defaultOptions of compareImages.  transparency is in tenths (0.3 = 3).
largeImageThreshold == 1200

defaultOptions ==
  [output |-> [errorColor |-> [red |-> 255, green |-> 0, blue |-> 255],
               errorType |-> "movement",
               transparency |-> 3,
               largeImageThreshold |-> largeImageThreshold,
               useCrossOrigin |-> FALSE,
               outputDiff |-> TRUE],
   scaleToSameSize |-> TRUE,
   ignore |-> {"antialiasing", "colors", "less", "nothing"}]

\* { ...defaultOptions, ...options }: a shallow spread, key by key.
MergeOptions(defaults, options) ==
  [k \in (DOMAIN defaults) \cup (DOMAIN options) |->
     IF k \in DOMAIN options THEN options[k] ELSE defaults[k]]

\* ------------------------------------- compare.js: the resemble call chain
\* resemble(image1Path).compareTo(image2Path).ignoreColors(..)
\*   .ignoreAntialiasing(..).scaleToSameSize(..).outputSettings(..)
\* The comparison itself is done by the resemblejs library; it is modelled
\* here for solid-colour images, where every pixel of the compared area is
\* classified the same way.

\* The threshold the library uses: the one given in the output settings, or
\* its default when the settings do not name one.
ThresholdOf(output) ==
  IF "largeImageThreshold" \in DOMAIN output
  THEN output.largeImageThreshold ELSE largeImageThreshold

\* Large images compared with antialiasing ignored are sampled: rows and
\* columns whose index is a multiple of 6 are skipped.
SkipsPixels(ignoreAntialiasing, output, width, height) ==
  /\ ThresholdOf(output) # 0
  /\ ignoreAntialiasing
  /\ (width > ThresholdOf(output) \/ height > ThresholdOf(output))

\* Indices 0..n-1 that are not multiples of 6.
Kept(n) == n - ((n + 5) \div 6)

\* Number of compared pixel positions of the rectangle [0,w) x [0,h).
Compared(skip, w, h) == IF skip THEN Kept(w) * Kept(h) ELSE w * h

\* Two opaque solid pixels are similar exactly when they have the same
\* colour: black and white differ by 255 in every channel and in brightness,
\* beyond the tolerance of every ignore policy.
PixelSimilar(c1, c2, ignoreColors, ignoreAntialiasing) == c1 = c2

\* The first `digits` decimal digits of r/den (0 <= r < den), as an integer.
RECURSIVE FracDigits(_, _, _)
FracDigits(r, den, digits) ==
  IF digits = 0 THEN 0
  ELSE ((r * 10) \div den) * (10 ^ (digits - 1))
       + FracDigits((r * 10) % den, den, digits - 1)

\* count / total * 100 as a number (units of 0.0001).
Percentage(count, total) ==
  Num(((count * 100) \div total) * 10000 + FracDigits((count * 100) % total, total, 4))

\* The data object handed to onComplete for the files f1 and f2.  The two
\* files are loaded concurrently; `first` (1 or 2) is the one whose load
\* finishes first.  With scaleToSameSize the image loaded second is drawn at
\* the size of the image loaded first.
Resemble(f1, f2, ignoreColors, ignoreAntialiasing, scaleToSameSize, output, first) ==
  IF ~f1.ok \/ ~f2.ok
  THEN [error |-> TRUE,
        misMatchPercentage |-> Undefined,
        rawMisMatchPercentage |-> Undefined,
        hasGetBuffer |-> FALSE,
        isSameDimensions |-> Undefined,
        dimensionDifference |-> Undefined]
  ELSE
    LET loaded1 == IF first = 1 THEN f1 ELSE f2
        other == IF first = 1 THEN f2 ELSE f1
        loaded2 == IF scaleToSameSize
                   THEN Solid(loaded1.w, loaded1.h, other.c) ELSE other
        width == Max(loaded1.w, loaded2.w)
        height == Max(loaded1.h, loaded2.h)
        skip == SkipsPixels(ignoreAntialiasing, output, width, height)
        both == Compared(skip, Min(loaded1.w, loaded2.w), Min(loaded1.h, loaded2.h))
        onlyOne == (Compared(skip, loaded1.w, loaded1.h) - both)
                   + (Compared(skip, loaded2.w, loaded2.h) - both)
        mismatchCount ==
          (IF PixelSimilar(loaded1.c, loaded2.c, ignoreColors, ignoreAntialiasing)
           THEN 0 ELSE both) + onlyOne
        raw == Percentage(mismatchCount, width * height)
    IN [error |-> FALSE,
        misMatchPercentage |-> toFixed2(raw),
        rawMisMatchPercentage |-> raw,
        hasGetBuffer |-> TRUE,
        isSameDimensions |-> (loaded1.w = loaded2.w /\ loaded1.h = loaded2.h),
        dimensionDifference |-> [width |-> loaded1.w - loaded2.w,
                                 height |-> loaded1.h - loaded2.h]]

\* compareImages, from the call of resemble to the data it completes with.
RunComparison(f1, f2, opts, first) ==
  LET comparisonOptions == MergeOptions(defaultOptions, opts)
  IN Resemble(f1, f2,
              "colors" \in comparisonOptions.ignore,
              "antialiasing" \in comparisonOptions.ignore,
              comparisonOptions.scaleToSameSize,
              comparisonOptions.output,
              first)

\* The onComplete callback: the result compareImages resolves with.
ComparisonResult(data) ==
  [misMatchPercentage |-> parseFloat(data.misMatchPercentage),
   isSameDimensions |-> data.isSameDimensions,
   dimensionDifference |-> data.dimensionDifference,
   rawMisMatchPercentage |-> parseFloat(data.rawMisMatchPercentage)]

\* The onComplete callback writes diff.png only when data.getBuffer exists.
WritesDiff(data) == data.hasGetBuffer

\* ------------------------------------------------ server.js: the response
\* Faulty variant of the response: matchScore is the mismatch itself, not
\* 100 minus it.
ReportScoreNotInverted(comparisonResult) ==
  [status |-> 200,
   matchScore |-> toFixed2(parseFloat(comparisonResult.misMatchPercentage)),
   diffImagePath |-> "/diff.png",
   misMatchPercentage |-> toFixed2(parseFloat(comparisonResult.misMatchPercentage)),
   figma |-> "/figma.png",
   code |-> "/code.png"]

\* The 200 response of /compare and /compare-file.
Report(comparisonResult) ==
  [status |-> 200,
   matchScore |-> toFixed2(Minus100(parseFloat(comparisonResult.misMatchPercentage))),
   diffImagePath |-> "/diff.png",
   misMatchPercentage |-> toFixed2(parseFloat(comparisonResult.misMatchPercentage)),
   figma |-> "/figma.png",
   code |-> "/code.png"]

\* ------------------------------------------------------- server.js: state
FileNames == {"figma.png", "code.png", "diff.png", "figma-upload.png"}

\* What a request can bring.  The reference of /compare is a URL whose
\* download fails (HTTP error, or a content type that is not image/*) or
\* yields bytes; the reference of /compare-file is an uploaded file whose
\* mimetype is image/* or not.  The page is captured at the viewport size.
ViewportWidth == 1440
ViewportHeight == 900

RefImages ==
  {Solid(50, 50, "black"), Solid(ViewportWidth, ViewportHeight, "white"), Undecodable}
ShotImages == {Solid(ViewportWidth, ViewportHeight, "white")}

\* fail = "none": the bytes img are stored.  "not_downloadable": the fetch
\* answers an HTTP error or a content type other than image/*.  "empty": a
\* file of size 0 is stored.  "not_image": the upload's mimetype is not
\* image/*.  "load_failed": the page does not load.  A screenshot that was
\* written is a PNG and never an empty file, so the pages have no "empty"
\* outcome; the check of takeScreenshot for it is kept in Screenshot.
RefOutcomes == [fail : {"none"}, img : RefImages]
                 \cup [fail : {"not_downloadable", "not_image"}, img : {Undecodable}]
                 \cup [fail : {"empty"}, img : {EmptyFile}]
ShotOutcomes == [fail : {"none"}, img : ShotImages]
                  \cup [fail : {"load_failed"}, img : {Undecodable}]

NoRef == [fail |-> "missing", img |-> Undecodable]
NoShot == [fail |-> "missing", img |-> Undecodable]

\* What the world would answer matters only where the handler asks: a URL
\* that is never fetched and a page that is never loaded (because the other
\* parameter is missing) get one outcome each, not every outcome.  An
\* uploaded file is received before the validation, so it keeps them all.
Consulted(i) ==
  /\ i.ref.fail = "missing" => i.page.fail \in {"missing", "none"}
  /\ (i.page.fail = "missing" /\ i.kind = "compare") =>
       (i.ref.fail = "missing" \/ i.ref = [fail |-> "none", img |-> Undecodable])

Inputs ==
  {i \in [kind : {"compare"},
          ref : {o \in RefOutcomes : o.fail # "not_image"} \cup {NoRef},
          page : ShotOutcomes \cup {NoShot}]
         \cup [kind : {"compare-file"},
               ref : {o \in RefOutcomes : o.fail \in {"none", "not_image"}} \cup {NoRef},
               page : ShotOutcomes \cup {NoShot}] :
     Consulted(i)}

NoInput == [kind |-> "none", ref |-> NoRef, page |-> NoShot]
NoResult == [misMatchPercentage |-> Undefined]
NoResponse == [status |-> 0]
NoImages == <<NoFile, NoFile>>

VARIABLES
  files,     \* the assets directory: file name -> contents (NoFile if absent)
  diffOf,    \* the pair of images diff.png was computed from
  pc,        \* per request: where its handler is
  inp,       \* per request: what the client sent and what the world answers
  result,    \* per request: comparisonResult
  resp,      \* per request: the response sent
  started,   \* per request: the operations its handler has started
  wrote,     \* per request: the files its handler has written
  options,   \* the options argument of a direct call of compareImages
  calls,     \* per request: how often downloadImage / takeScreenshot was called
  caught,    \* per request: the error its catch block (or the middleware) got
  servedDuring, \* requests answered while a comparison was in progress
  fn,        \* retry loop: the function running
  maxRetries,   \* retry loop: its maxRetries argument
  attempt,   \* retry loop: the loop variable
  retryPc,   \* retry loop: where it is
  lastError, \* retry loop: the variable lastError
  retryError,   \* retry loop: the error it threw
  log,       \* retry loop: the calls, failures and waits so far
  now,       \* the clock, in milliseconds
  resultTime,   \* analysisTime of the comparison result
  reports,   \* the reports built from one comparison result
  builtAt,   \* the clock readings at which they were built
  page,      \* the client page: its React state and its requests in flight
  browser,   \* a call of takeScreenshotWithRetry: the loop and the browsers
  tol,       \* a call of compareImagesWithTolerance: argument and result
  dl         \* a call of downloadImage: the URL, the fetches, the output file

serverVars == <<files, diffOf, pc, inp, result, resp, started, wrote, options,
                calls, caught, servedDuring>>
retryVars == <<fn, maxRetries, attempt, retryPc, lastError, retryError, log>>
timedVars == <<now, resultTime, reports, builtAt>>

otherVars == <<page, browser, tol, dl>>

vars == <<serverVars, retryVars, timedVars, otherVars>>

\* An Error object as far as a response can show it: its message and
\* whether that message names a path of the server's file system.  (Its
\* stack always names the server's source files.)
ErrorOf(message, path) == [message |-> message, path |-> path]
NoError == ErrorOf("", FALSE)

\* The errors the awaited operations throw.  fs.copy and compareImages put
\* the absolute path of the file they miss into the message.
UploadFilterError == ErrorOf("Only image files are allowed", FALSE)
DownloadFailedError ==
  ErrorOf("Failed to download image: the URL does not answer with an image", FALSE)
DownloadEmptyError ==
  ErrorOf("Failed to download image: Downloaded image file is empty", FALSE)
CopyError ==
  ErrorOf("ENOENT: no such file or directory, stat '<assetsDir>/figma-upload.png'", TRUE)
PageLoadError == ErrorOf("Failed to take screenshot: Failed to load page", FALSE)
ScreenshotEmptyError ==
  ErrorOf("Failed to take screenshot: Screenshot file is empty", FALSE)
FirstImageNotFound ==
  ErrorOf("Image comparison failed: First image not found: <assetsDir>/figma.png", TRUE)
SecondImageNotFound ==
  ErrorOf("Image comparison failed: Second image not found: <assetsDir>/code.png", TRUE)
\* The first path is checked first.
ImageNotFound(fs) ==
  IF fs["figma.png"] = NoFile THEN FirstImageNotFound ELSE SecondImageNotFound

NoCalls == [download |-> 0, screenshot |-> 0]

\* The retry loop and the clock at rest.
IdleRetry ==
  /\ fn = "none"
  /\ maxRetries = 0
  /\ attempt = 0
  /\ retryPc = "idle"
  /\ lastError = NoError
  /\ retryError = NoError
  /\ log = <<>>

\* Date.prototype.toISOString() of a clock reading: seconds and
\* milliseconds of "1970-01-01T00:00:SS.mmmZ".
toISOString(t) == [s |-> t \div 1000, ms |-> t % 1000]

IdleTimed ==
  /\ now = 0
  /\ resultTime = toISOString(0)
  /\ reports = <<>>
  /\ builtAt = <<>>

\* The client page as React first renders it (the useState initial values),
\* with no request in flight.
InitialPage ==
  [figmaUrl |-> "", pageUrl |-> "", isComparing |-> FALSE, showResults |-> FALSE,
   comparisonResult |-> "null", error |-> "", figmaFile |-> "null",
   inputMethod |-> "url", requests |-> <<>>]

\* No call of takeScreenshotWithRetry, compareImagesWithTolerance or
\* downloadImage has been made.
NoBrowserCall == [pc |-> "none"]
NoToleranceCall == [arg |-> <<>>, returned |-> <<>>]
NoDownloadCall == [pc |-> "none"]

IdleOther ==
  /\ page = InitialPage
  /\ browser = NoBrowserCall
  /\ tol = NoToleranceCall
  /\ dl = NoDownloadCall

\* The server after start-up: no request yet, an empty assets directory.
IdleServer ==
  /\ files = [f \in FileNames |-> NoFile]
  /\ diffOf = NoImages
  /\ pc = [r \in Reqs |-> "idle"]
  /\ inp = [r \in Reqs |-> NoInput]
  /\ result = [r \in Reqs |-> NoResult]
  /\ resp = [r \in Reqs |-> NoResponse]
  /\ started = [r \in Reqs |-> {}]
  /\ wrote = [r \in Reqs |-> {}]
  /\ options = <<>>
  /\ calls = [r \in Reqs |-> NoCalls]
  /\ caught = [r \in Reqs |-> NoError]
  /\ servedDuring = {}

Init == IdleServer /\ IdleRetry /\ IdleTimed /\ IdleOther

\* res.status(400).json({error: 'Missing required parameters', ...})
Response400 == [status |-> 400, error |-> "Missing required parameters"]
\* res.status(500).json({error: ..., message: error.message})
Response500(error) == [status |-> 500, error |-> error]

\* The response of the catch block of a handler.
CatchError(kind) ==
  Response500(IF kind = "compare-file" THEN "File upload comparison failed"
              ELSE "Comparison failed")

\* The JSON body of a 500 response.  The catch blocks add the stack when
\* NODE_ENV is 'development'; the error-handling middleware never does.
\* The message is error.message in every mode.  stack and paths say whether
\* the body holds a stack trace and whether it names server paths.
ErrorBody(response, error, NODE_ENV) ==
  LET stack == response.error # "Internal server error" /\ NODE_ENV = "development"
  IN [error |-> response.error,
      message |-> error.message,
      stack |-> stack,
      paths |-> error.path \/ stack]

\* Faulty variant of the validation: pageUrl is not checked.
MissingParametersNoPage(i) == i.ref.fail = "missing"

\* if (!figmaImageUrl || !pageUrl) / if (!uploadedFile || !pageUrl)
MissingParameters(i) == i.ref.fail = "missing" \/ i.page.fail = "missing"

\* A handler runs without interruption from one `await` to the next; each
\* action below is one such stretch, ending where the next awaited
\* operation is started or the response is sent.

\* A request arrives.  /compare: the handler validates the body and either
\* answers 400 or starts downloadImage.  /compare-file: the request first
\* goes through upload.single('figmaImage').
ArriveWith(r, inputs) ==
  /\ pc[r] = "idle"
  /\ \E i \in inputs :
       /\ inp' = [inp EXCEPT ![r] = i]
       /\ IF i.kind = "compare-file"
          THEN /\ pc' = [pc EXCEPT ![r] = "upload"]
               /\ UNCHANGED resp
          ELSE IF MissingParameters(i)
          THEN /\ resp' = [resp EXCEPT ![r] = Response400]
               /\ pc' = [pc EXCEPT ![r] = "done"]
          ELSE /\ pc' = [pc EXCEPT ![r] = "download"]
               /\ UNCHANGED resp
  /\ UNCHANGED <<files, diffOf, result, started, wrote, options, calls, caught,
                 servedDuring, retryVars, timedVars, otherVars>>

Arrive(r) == ArriveWith(r, Inputs)

\* multer finishes: fileFilter rejects a non-image mimetype (the error goes
\* to the error-handling middleware); an accepted file is stored as
\* assets/figma-upload.png; without a file part req.file stays undefined.
\* Then the handler validates and either answers 400 or starts fs.copy.
Upload(r) ==
  /\ pc[r] = "upload"
  /\ IF inp[r].ref.fail = "not_image"
     THEN /\ resp' = [resp EXCEPT ![r] = Response500("Internal server error")]
          /\ caught' = [caught EXCEPT ![r] = UploadFilterError]
          /\ pc' = [pc EXCEPT ![r] = "done"]
          /\ UNCHANGED <<files, wrote>>
     ELSE /\ UNCHANGED caught
          /\ IF inp[r].ref.fail = "missing"
             THEN UNCHANGED <<files, wrote>>
             ELSE /\ files' = [files EXCEPT !["figma-upload.png"] = inp[r].ref.img]
                  /\ wrote' = [wrote EXCEPT ![r] = @ \cup {"figma-upload.png"}]
          /\ IF MissingParameters(inp[r])
             THEN /\ resp' = [resp EXCEPT ![r] = Response400]
                  /\ pc' = [pc EXCEPT ![r] = "done"]
             ELSE /\ pc' = [pc EXCEPT ![r] = "copy"]
                  /\ UNCHANGED resp
  /\ UNCHANGED <<diffOf, inp, result, started, options, calls,
                 servedDuring, retryVars, timedVars, otherVars>>

\* Step 1 of /compare: await downloadImage(figmaImageUrl, assets/figma.png).
\* downloadImage throws on an HTTP error and on a content type that is not
\* image/*, before writing; it throws on an empty file after writing it.
\* On success the handler starts takeScreenshot.
Download(r) ==
  /\ pc[r] = "download"
  /\ started' = [started EXCEPT ![r] = @ \cup {"download"}]
  /\ calls' = [calls EXCEPT ![r].download = @ + 1]
  /\ IF inp[r].ref.fail = "not_downloadable"
     THEN /\ resp' = [resp EXCEPT ![r] = CatchError(inp[r].kind)]
          /\ caught' = [caught EXCEPT ![r] = DownloadFailedError]
          /\ pc' = [pc EXCEPT ![r] = "done"]
          /\ UNCHANGED <<files, wrote>>
     ELSE /\ files' = [files EXCEPT !["figma.png"] = inp[r].ref.img]
          /\ wrote' = [wrote EXCEPT ![r] = @ \cup {"figma.png"}]
          /\ IF inp[r].ref.fail = "empty"
             THEN /\ resp' = [resp EXCEPT ![r] = CatchError(inp[r].kind)]
                  /\ caught' = [caught EXCEPT ![r] = DownloadEmptyError]
                  /\ pc' = [pc EXCEPT ![r] = "done"]
             ELSE /\ pc' = [pc EXCEPT ![r] = "screenshot"]
                  /\ UNCHANGED <<resp, caught>>
  /\ UNCHANGED <<diffOf, inp, result, options, servedDuring, retryVars, timedVars, otherVars>>

\* Step 1 of /compare-file: await fs.copy(uploadedFile.path, assets/figma.png);
\* then the handler starts takeScreenshot.
Copy(r) ==
  /\ pc[r] = "copy"
  /\ started' = [started EXCEPT ![r] = @ \cup {"copy"}]
  /\ IF files["figma-upload.png"] = NoFile
     THEN /\ resp' = [resp EXCEPT ![r] = CatchError(inp[r].kind)]
          /\ caught' = [caught EXCEPT ![r] = CopyError]
          /\ pc' = [pc EXCEPT ![r] = "done"]
          /\ UNCHANGED <<files, wrote>>
     ELSE /\ files' = [files EXCEPT !["figma.png"] = files["figma-upload.png"]]
          /\ wrote' = [wrote EXCEPT ![r] = @ \cup {"figma.png"}]
          /\ pc' = [pc EXCEPT ![r] = "screenshot"]
          /\ UNCHANGED <<resp, caught>>
  /\ UNCHANGED <<diffOf, inp, result, options, calls, servedDuring, retryVars, timedVars, otherVars>>

\* Faulty variant of the path check: only the first path is checked.
ImagesFoundFirstOnly(fs) == fs["figma.png"] # NoFile

\* compareImages, the synchronous part: both paths must exist
\* (fs.existsSync), otherwise it throws an error naming the missing path.
ImagesFound(fs) == fs["figma.png"] # NoFile /\ fs["code.png"] # NoFile

\* Faulty variant of step 2: the handler goes on to compareImages whether
\* or not takeScreenshot threw.
ScreenshotThenCompare(r) ==
  /\ pc[r] = "screenshot"
  /\ calls' = [calls EXCEPT ![r].screenshot = @ + 1]
  /\ IF inp[r].page.fail = "load_failed"
     THEN UNCHANGED <<files, wrote>>
     ELSE /\ files' = [files EXCEPT !["code.png"] = inp[r].page.img]
          /\ wrote' = [wrote EXCEPT ![r] = @ \cup {"code.png"}]
  /\ started' = [started EXCEPT ![r] = @ \cup {"screenshot", "compare"}]
  /\ pc' = [pc EXCEPT ![r] = "resemble"]
  /\ UNCHANGED <<diffOf, inp, result, resp, caught, options, servedDuring,
                 retryVars, timedVars, otherVars>>

\* Step 2: await takeScreenshot(pageUrl, assets/code.png).  takeScreenshot
\* throws when the page does not load, before writing; it throws on an empty
\* screenshot file after writing it.  On success the handler calls
\* compareImages (step 3), which checks the two paths and starts resemble.
Screenshot(r) ==
  /\ pc[r] = "screenshot"
  /\ calls' = [calls EXCEPT ![r].screenshot = @ + 1]
  /\ IF inp[r].page.fail = "load_failed"
     THEN /\ resp' = [resp EXCEPT ![r] = CatchError(inp[r].kind)]
          /\ caught' = [caught EXCEPT ![r] = PageLoadError]
          /\ pc' = [pc EXCEPT ![r] = "done"]
          /\ started' = [started EXCEPT ![r] = @ \cup {"screenshot"}]
          /\ UNCHANGED <<files, wrote>>
     ELSE /\ files' = [files EXCEPT !["code.png"] = inp[r].page.img]
          /\ wrote' = [wrote EXCEPT ![r] = @ \cup {"code.png"}]
          /\ IF inp[r].page.fail = "empty"
             THEN /\ resp' = [resp EXCEPT ![r] = CatchError(inp[r].kind)]
                  /\ caught' = [caught EXCEPT ![r] = ScreenshotEmptyError]
                  /\ pc' = [pc EXCEPT ![r] = "done"]
                  /\ started' = [started EXCEPT ![r] = @ \cup {"screenshot"}]
             ELSE /\ started' = [started EXCEPT ![r] = @ \cup {"screenshot", "compare"}]
                  /\ IF ImagesFound(files')
                     THEN /\ pc' = [pc EXCEPT ![r] = "resemble"]
                          /\ UNCHANGED <<resp, caught>>
                     ELSE /\ resp' = [resp EXCEPT ![r] = CatchError(inp[r].kind)]
                          /\ caught' = [caught EXCEPT ![r] = ImageNotFound(files')]
                          /\ pc' = [pc EXCEPT ![r] = "done"]
  /\ UNCHANGED <<diffOf, inp, result, options, servedDuring, retryVars, timedVars, otherVars>>

\* compareImages, the completion: resemble has read the two files and calls
\* onComplete, which writes diff.png (if there is a buffer) and resolves
\* with the result.
OnComplete(r, opts, first) ==
  LET data == RunComparison(files["figma.png"], files["code.png"], opts, first)
  IN /\ result' = [result EXCEPT ![r] = ComparisonResult(data)]
     /\ IF WritesDiff(data)
        THEN /\ files' = [files EXCEPT !["diff.png"] = Solid(0, 0, "diff")]
             /\ diffOf' = <<files["figma.png"], files["code.png"]>>
             /\ wrote' = [wrote EXCEPT ![r] = @ \cup {"diff.png"}]
        ELSE UNCHANGED <<files, diffOf, wrote>>

\* Step 3 completes: compareImages(figmaImagePath, codeImagePath) resolves.
\* /compare sends the report at once; /compare-file first starts removing
\* the uploaded file.
CompareComplete(r) ==
  /\ pc[r] = "resemble"
  /\ \E first \in {1, 2} : OnComplete(r, <<>>, first)
  /\ IF inp[r].kind = "compare-file"
     THEN /\ pc' = [pc EXCEPT ![r] = "cleanup"]
          /\ UNCHANGED resp
     ELSE /\ resp' = [resp EXCEPT ![r] = Report(result'[r])]
          /\ pc' = [pc EXCEPT ![r] = "done"]
  /\ UNCHANGED <<inp, started, options, calls, caught, servedDuring, retryVars, timedVars, otherVars>>

\* Faulty variant of step 4: the file is removed and no report is sent.
CleanupWithoutReport(r) ==
  /\ pc[r] = "cleanup"
  /\ files' = [files EXCEPT !["figma-upload.png"] = NoFile]
  /\ pc' = [pc EXCEPT ![r] = "done"]
  /\ UNCHANGED <<diffOf, inp, result, resp, started, wrote, options, calls, caught,
                 servedDuring, retryVars, timedVars, otherVars>>

\* Step 4 of /compare-file: await fs.remove(uploadedFile.path), then the
\* report is sent.
Cleanup(r) ==
  /\ pc[r] = "cleanup"
  /\ files' = [files EXCEPT !["figma-upload.png"] = NoFile]
  /\ resp' = [resp EXCEPT ![r] = Report(result[r])]
  /\ pc' = [pc EXCEPT ![r] = "done"]
  /\ UNCHANGED <<diffOf, inp, result, started, wrote, options, calls, caught,
                 servedDuring, retryVars, timedVars, otherVars>>

Next ==
  \E r \in Reqs :
    \/ Arrive(r)
    \/ Upload(r)
    \/ Download(r)
    \/ Copy(r)
    \/ Screenshot(r)
    \/ CompareComplete(r)
    \/ Cleanup(r)

Spec == Init /\ [][Next]_vars

\* Where a handler can be.
HandlerPcs ==
  {"idle", "upload", "download", "copy", "screenshot", "resemble", "cleanup", "done"}

\* The handler of request r, waiting for an awaited operation, goes on:
\* the operation settles and the event loop runs the continuation.
Settles(r) ==
  /\ pc[r] \notin {"idle", "done"}
  /\ \E next \in HandlerPcs \ {pc[r]} : pc' = [pc EXCEPT ![r] = next]

\* Whether a handler goes on does not depend on what the images show: the
\* requests bring every outcome of every step, with one reference image.
StepInputs ==
  {i \in Inputs :
     (i.ref.fail = "none" /\ ~MissingParameters(i)) => i.ref.img = Solid(50, 50, "black")}

NextFair ==
  \E r \in Reqs :
    \/ ArriveWith(r, StepInputs)
    \/ Upload(r)
    \/ Download(r)
    \/ Copy(r)
    \/ Screenshot(r)
    \/ CompareComplete(r)
    \/ Cleanup(r)

\* Every awaited operation settles (the upload, the download, the copy, the
\* browser and resemble each resolve or reject), and the event loop then
\* runs the continuation of the handler that awaits it.  Nothing obliges a
\* client to send a request.
SpecFair == Init /\ [][NextFair]_vars /\ \A r \in Reqs : WF_pc(Settles(r))

\* ----------------------------------------- GET /health during a comparison
\* app.get('/health'): a synchronous handler; the request is answered in the
\* step in which it arrives.
HealthRequest == [kind |-> "health", ref |-> NoRef, page |-> NoShot]
HealthOK ==
  [status |-> 200, body |-> [status |-> "OK",
                             message |-> "Figma-to-Code comparison server is running"]]

\* compareImages has started resemble for some request and its onComplete
\* has not run yet.
ComparisonInProgress == \E q \in Reqs : pc[q] = "resemble"

\* Faulty variant: the server takes no request while a comparison is in
\* progress.
HealthWhenIdle(r) ==
  /\ ~ComparisonInProgress
  /\ pc[r] = "idle"
  /\ inp' = [inp EXCEPT ![r] = HealthRequest]
  /\ resp' = [resp EXCEPT ![r] = HealthOK]
  /\ pc' = [pc EXCEPT ![r] = "done"]
  /\ servedDuring' = servedDuring
  /\ UNCHANGED <<files, diffOf, result, started, wrote, options, calls, caught,
                 retryVars, timedVars, otherVars>>

Health(r) ==
  /\ pc[r] = "idle"
  /\ inp' = [inp EXCEPT ![r] = HealthRequest]
  /\ resp' = [resp EXCEPT ![r] = HealthOK]
  /\ pc' = [pc EXCEPT ![r] = "done"]
  /\ servedDuring' = IF ComparisonInProgress THEN servedDuring \cup {r} ELSE servedDuring
  /\ UNCHANGED <<files, diffOf, result, started, wrote, options, calls, caught,
                 retryVars, timedVars, otherVars>>

\* One comparison request with both parameters has arrived (a /compare
\* request has started downloadImage, a /compare-file request is in the
\* upload); the other clients only ask for /health.
InitHealth ==
  /\ \E i \in {j \in Inputs : ~MissingParameters(j)} :
       /\ inp = [r \in Reqs |-> IF r = TheCaller THEN i ELSE NoInput]
       /\ pc = [r \in Reqs |->
                  IF r # TheCaller THEN "idle"
                  ELSE IF i.kind = "compare-file" THEN "upload" ELSE "download"]
  /\ files = [f \in FileNames |-> NoFile]
  /\ diffOf = NoImages
  /\ result = [r \in Reqs |-> NoResult]
  /\ resp = [r \in Reqs |-> NoResponse]
  /\ started = [r \in Reqs |-> {}]
  /\ wrote = [r \in Reqs |-> {}]
  /\ options = <<>>
  /\ calls = [r \in Reqs |-> NoCalls]
  /\ caught = [r \in Reqs |-> NoError]
  /\ servedDuring = {}
  /\ IdleRetry
  /\ IdleTimed
  /\ IdleOther

NextHealth ==
  \E r \in Reqs :
    \/ Health(r)
    \/ Upload(r)
    \/ Download(r)
    \/ Copy(r)
    \/ Screenshot(r)
    \/ CompareComplete(r)
    \/ Cleanup(r)

SpecHealth == InitHealth /\ [][NextHealth]_vars

\* ------------------------------------------- compareImages called directly
\* A caller passes two paths and an options object to compareImages and
\* formats the result as the server does.  Each option may be absent.
DirectImages ==
  {Solid(50, 50, c) : c \in Colours}
    \cup {Solid(ViewportWidth, ViewportHeight, c) : c \in Colours}
    \cup {Undecodable, NoFile}

OptionChoices ==
  [ignore : {<<>>, <<{}>>, <<{"antialiasing"}>>, <<{"colors"}>>,
             <<{"antialiasing", "colors"}>>},
   scaleToSameSize : {<<>>, <<TRUE>>, <<FALSE>>},
   output : {<<>>, <<[largeImageThreshold |-> 0]>>,
             <<[errorType |-> "flat", transparency |-> 10]>>,
             <<[errorColor |-> [red |-> 0, green |-> 255, blue |-> 0]]>>}]

OptionsOf(choice) ==
  [k \in {key \in DOMAIN choice : choice[key] # <<>>} |-> choice[k][1]]

InitDirect ==
  /\ \E a \in DirectImages, b \in DirectImages :
       files = [f \in FileNames |->
                  IF f = "figma.png" THEN a ELSE IF f = "code.png" THEN b ELSE NoFile]
  /\ \E choice \in OptionChoices : options = OptionsOf(choice)
  /\ diffOf = NoImages
  /\ pc = [r \in Reqs |-> IF r = TheCaller THEN "compare" ELSE "done"]
  /\ inp = [r \in Reqs |-> [kind |-> "compare", ref |-> NoRef, page |-> NoShot]]
  /\ result = [r \in Reqs |-> NoResult]
  /\ resp = [r \in Reqs |-> NoResponse]
  /\ started = [r \in Reqs |-> {}]
  /\ wrote = [r \in Reqs |-> {}]
  /\ calls = [r \in Reqs |-> NoCalls]
  /\ caught = [r \in Reqs |-> NoError]
  /\ servedDuring = {}
  /\ IdleRetry
  /\ IdleTimed
  /\ IdleOther

\* The call: the paths are checked; a missing file makes compareImages throw
\* (kept as the caller's error response).
DirectCall ==
  /\ pc[TheCaller] = "compare"
  /\ started' = [started EXCEPT ![TheCaller] = @ \cup {"compare"}]
  /\ IF ImagesFound(files)
     THEN /\ pc' = [pc EXCEPT ![TheCaller] = "resemble"]
          /\ UNCHANGED <<resp, caught>>
     ELSE /\ resp' = [resp EXCEPT ![TheCaller] = CatchError("compare")]
          /\ caught' = [caught EXCEPT ![TheCaller] = ImageNotFound(files)]
          /\ pc' = [pc EXCEPT ![TheCaller] = "done"]
  /\ UNCHANGED <<files, diffOf, inp, result, wrote, options, calls,
                 servedDuring, retryVars, timedVars, otherVars>>

\* The completion: the result is formatted as the server formats it.
DirectComplete ==
  /\ pc[TheCaller] = "resemble"
  /\ \E first \in {1, 2} : OnComplete(TheCaller, options, first)
  /\ resp' = [resp EXCEPT ![TheCaller] = Report(result'[TheCaller])]
  /\ pc' = [pc EXCEPT ![TheCaller] = "done"]
  /\ UNCHANGED <<inp, started, options, calls, caught, servedDuring, retryVars, timedVars, otherVars>>

NextDirect == DirectCall \/ DirectComplete

SpecDirect == InitDirect /\ [][NextDirect]_vars

\* ------------------------------------------------------------ retry loops
\* downloadImageWithRetry(imageUrl, outputPath, maxRetries = 3),
\* takeScreenshotWithRetry(pageUrl, outputPath, options, maxRetries = 3) and
\* the free-tier takeScreenshotWithRetry(..., maxRetries = 2).  The awaited
\* operation (downloadImage / takeScreenshot) either resolves or throws an
\* error with some message.
MaxMaxRetries == 3

RetryFunctions ==
  {"downloadImageWithRetry", "takeScreenshotWithRetry", "takeScreenshotWithRetry (free tier)"}

DefaultMaxRetries(f) == IF f = "takeScreenshotWithRetry (free tier)" THEN 2 ELSE 3

\* The factor of the backoff, in milliseconds.
BaseDelay(f) == IF f = "takeScreenshotWithRetry (free tier)" THEN 500 ELSE 1000

\* Faulty variant of the delay: the exponent starts at 0.
DelayFromZero(f, k) == (2 ^ (k - 1)) * BaseDelay(f)

\* const delay = Math.pow(2, attempt) * 1000  (or * 500)
Delay(f, k) == (2 ^ k) * BaseDelay(f)

\* Faulty variant of the loop condition: one iteration more.
LoopConditionOneMore(k, n) == k <= n + 1

\* for (...; attempt <= maxRetries; ...)
LoopCondition(k, n) == k <= n

\* if (attempt < maxRetries): a wait follows the failed attempt.
WaitsBeforeRetry(k, n) == k < n

\* The messages with which an attempt can fail.
AttemptMessages == {"timeout", "503 Service Unavailable"}

\* new Error(`Failed to ... after ${maxRetries} attempts. Last error:
\* ${lastError.message}`), the message kept in its parts.
RetryExhausted(f, n, last) ==
  ErrorOf(<<IF f = "downloadImageWithRetry" THEN "Failed to download image after"
            ELSE "Failed to take screenshot after",
            n, "attempts. Last error:", last.message>>, FALSE)

\* A call of one of the three functions, with maxRetries given or left to
\* its default.
InitRetry ==
  /\ IdleServer
  /\ IdleTimed
  /\ IdleOther
  /\ fn \in RetryFunctions
  /\ \E given \in {<<>>} \cup {<<n>> : n \in 1..MaxMaxRetries} :
       maxRetries = IF given = <<>> THEN DefaultMaxRetries(fn) ELSE given[1]
  /\ attempt = 1
  /\ retryPc = IF LoopCondition(1, maxRetries) THEN "call" ELSE "thrown"
  /\ lastError = NoError
  /\ retryError = NoError
  /\ log = <<>>

\* attempt++ and the loop condition: the next iteration starts, or the loop
\* ends and the function throws.
LoopStep ==
  /\ attempt' = attempt + 1
  /\ IF LoopCondition(attempt + 1, maxRetries)
     THEN /\ retryPc' = "call"
          /\ UNCHANGED retryError
     ELSE /\ retryPc' = "thrown"
          /\ retryError' = RetryExhausted(fn, maxRetries, lastError')

\* One iteration up to its next await: the operation is awaited; if it
\* resolves the function returns; if it throws, the catch block stores the
\* error and either starts the wait or goes on to the loop step.
Attempt ==
  /\ retryPc = "call"
  /\ \/ /\ log' = Append(log, [e |-> "call", k |-> attempt])
        /\ retryPc' = "returned"
        /\ UNCHANGED <<attempt, lastError, retryError>>
     \/ \E message \in AttemptMessages :
          /\ lastError' = ErrorOf(message, FALSE)
          /\ IF WaitsBeforeRetry(attempt, maxRetries)
             THEN /\ log' = log \o <<[e |-> "call", k |-> attempt],
                                     [e |-> "fail", k |-> attempt, message |-> message],
                                     [e |-> "wait", k |-> attempt, ms |-> Delay(fn, attempt)]>>
                  /\ retryPc' = "wait"
                  /\ UNCHANGED <<attempt, retryError>>
             ELSE /\ log' = log \o <<[e |-> "call", k |-> attempt],
                                     [e |-> "fail", k |-> attempt, message |-> message]>>
                  /\ LoopStep
  /\ UNCHANGED <<fn, maxRetries, serverVars, timedVars, otherVars>>

\* The timer of the wait fires: the loop goes on.
TimerFires ==
  /\ retryPc = "wait"
  /\ LoopStep
  /\ UNCHANGED <<fn, maxRetries, lastError, log, serverVars, timedVars, otherVars>>

NextRetry == Attempt \/ TimerFires

SpecRetry == InitRetry /\ [][NextRetry]_vars

\* ------------------------------------------------- the report's timestamp
\* One request whose comparison is in progress, with a clock.  The result
\* of compareImages and the response of the handler each take their
\* analysisTime from new Date().toISOString().
MaxClock == 1500
MaxReports == 2

\* The amounts by which the clock advances between two steps.
ClockSteps == {250, 1000}

\* Faulty variant: the response repeats the analysisTime of the result.
AnalysisTimeOfResult(comparisonTime, clock) == comparisonTime

\* analysisTime: new Date().toISOString() in the response.
AnalysisTime(comparisonTime, clock) == toISOString(clock)

\* The response with its analysisTime.
TimedReport(comparisonResult, comparisonTime, clock) ==
  [report |-> Report(comparisonResult),
   analysisTime |-> AnalysisTime(comparisonTime, clock)]

InitTimed ==
  /\ \E a \in {f \in RefImages : f.ok}, b \in ShotImages :
       files = [f \in FileNames |->
                  IF f = "figma.png" THEN a ELSE IF f = "code.png" THEN b ELSE NoFile]
  /\ diffOf = NoImages
  /\ pc = [r \in Reqs |-> IF r = TheCaller THEN "resemble" ELSE "done"]
  /\ inp = [r \in Reqs |-> [kind |-> "compare", ref |-> NoRef, page |-> NoShot]]
  /\ result = [r \in Reqs |-> NoResult]
  /\ resp = [r \in Reqs |-> NoResponse]
  /\ started = [r \in Reqs |-> IF r = TheCaller THEN {"compare"} ELSE {}]
  /\ wrote = [r \in Reqs |-> {}]
  /\ options = <<>>
  /\ calls = [r \in Reqs |-> NoCalls]
  /\ caught = [r \in Reqs |-> NoError]
  /\ servedDuring = {}
  /\ IdleRetry
  /\ IdleTimed
  /\ IdleOther

\* Time passes.
Tick ==
  /\ \E d \in ClockSteps :
       /\ now + d <= MaxClock
       /\ now' = now + d
  /\ UNCHANGED <<serverVars, retryVars, resultTime, reports, builtAt, otherVars>>

\* onComplete: the result is built, with analysisTime taken from the clock.
TimedComplete ==
  /\ pc[TheCaller] = "resemble"
  /\ \E first \in {1, 2} : OnComplete(TheCaller, <<>>, first)
  /\ resultTime' = toISOString(now)
  /\ pc' = [pc EXCEPT ![TheCaller] = "respond"]
  /\ UNCHANGED <<inp, resp, started, options, calls, caught, servedDuring,
                 retryVars, now, reports, builtAt, otherVars>>

\* Step 4: the response is built from comparisonResult and sent.  Applied
\* again to the same comparisonResult, the same code builds another report.
BuildReport ==
  /\ pc[TheCaller] = "respond"
  /\ Len(reports) < MaxReports
  /\ reports' = Append(reports, TimedReport(result[TheCaller], resultTime, now))
  /\ builtAt' = Append(builtAt, now)
  /\ resp' = [resp EXCEPT ![TheCaller] = Report(result[TheCaller])]
  /\ UNCHANGED <<files, diffOf, pc, inp, result, started, wrote, options, calls,
                 caught, servedDuring, retryVars, now, resultTime, otherVars>>

NextTimed == Tick \/ TimedComplete \/ BuildReport

SpecTimed == InitTimed /\ [][NextTimed]_vars

\* ------------------------------------------- compareImagesWithTolerance
\* compareImagesWithTolerance(image1Path, image2Path, tolerance = 5,
\* options = {}): the comparison is awaited and a verdict is added to its
\* result.  A tolerance is a number in the units of Num.
DefaultTolerance == Num(50000)

\* The tolerance parameter: the argument if one was passed, else 5.
ToleranceOf(arg) == IF arg = <<>> THEN DefaultTolerance ELSE arg[1]

\* Faulty variant of the test: a mismatch equal to the tolerance fails.
WithinToleranceStrict(misMatchPercentage, tolerance) ==
  /\ misMatchPercentage.t = "number"
  /\ tolerance.t = "number"
  /\ misMatchPercentage.v < tolerance.v

\* result.misMatchPercentage <= tolerance on JS numbers: a comparison with
\* NaN is false.
WithinTolerance(misMatchPercentage, tolerance) ==
  /\ misMatchPercentage.t = "number"
  /\ tolerance.t = "number"
  /\ misMatchPercentage.v <= tolerance.v

\* The object returned: { ...result, passed, tolerance, status, message }.
\* The message is kept in its parts.
ToleranceVerdict(comparisonResult, tolerance) ==
  LET passed == WithinTolerance(comparisonResult.misMatchPercentage, tolerance)
      added ==
        [passed |-> passed,
         tolerance |-> tolerance,
         status |-> IF passed THEN "PASS" ELSE "FAIL",
         message |->
           IF passed THEN <<"Images match within tolerance", tolerance>>
           ELSE <<"Images exceed tolerance", tolerance, "Mismatch:",
                  toFixed2(comparisonResult.misMatchPercentage)>>]
  IN [k \in (DOMAIN comparisonResult) \cup (DOMAIN added) |->
        IF k \in DOMAIN added THEN added[k] ELSE comparisonResult[k]]

\* The tolerances a caller passes: none, 0, 5, 69.44, 100.
Tolerances == {<<>>, <<Num(0)>>, <<Num(50000)>>, <<Num(694400)>>, <<Num(1000000)>>}

InitTolerance ==
  /\ \E a \in DirectImages, b \in DirectImages :
       files = [f \in FileNames |->
                  IF f = "figma.png" THEN a ELSE IF f = "code.png" THEN b ELSE NoFile]
  /\ \E choice \in OptionChoices : options = OptionsOf(choice)
  /\ \E arg \in Tolerances : tol = [arg |-> arg, returned |-> <<>>]
  /\ diffOf = NoImages
  /\ pc = [r \in Reqs |-> IF r = TheCaller THEN "compare" ELSE "done"]
  /\ inp = [r \in Reqs |-> [kind |-> "compare", ref |-> NoRef, page |-> NoShot]]
  /\ result = [r \in Reqs |-> NoResult]
  /\ resp = [r \in Reqs |-> NoResponse]
  /\ started = [r \in Reqs |-> {}]
  /\ wrote = [r \in Reqs |-> {}]
  /\ calls = [r \in Reqs |-> NoCalls]
  /\ caught = [r \in Reqs |-> NoError]
  /\ servedDuring = {}
  /\ IdleRetry
  /\ IdleTimed
  /\ page = InitialPage
  /\ browser = NoBrowserCall
  /\ dl = NoDownloadCall

\* compareImages resolves and compareImagesWithTolerance returns its object.
\* (A comparison that throws makes compareImagesWithTolerance throw: see
\* DirectCall.)
ToleranceComplete ==
  /\ pc[TheCaller] = "resemble"
  /\ \E first \in {1, 2} : OnComplete(TheCaller, options, first)
  /\ tol' = [tol EXCEPT !.returned =
               <<ToleranceVerdict(result'[TheCaller], ToleranceOf(tol.arg))>>]
  /\ pc' = [pc EXCEPT ![TheCaller] = "done"]
  /\ UNCHANGED <<inp, resp, started, options, calls, caught, servedDuring,
                 retryVars, timedVars, page, browser, dl>>

NextTolerance == DirectCall \/ ToleranceComplete

SpecTolerance == InitTolerance /\ [][NextTolerance]_vars

\* ------------------------------------------------ downloadImage, in detail
\* downloadImage(imageUrl, outputPath) with its conversion of Figma URLs.
\* A URL is described by what the code asks of it: whether it is a non-empty
\* string, whether it contains 'figma.com', and whether one of the four
\* patterns of extractFigmaIds (design, file, proto, community/file with
\* ?node-id=) matches it.
FigmaPatterns == {"design", "file", "proto", "community/file"}

DownloadUrls ==
  {[valid |-> FALSE, figma |-> FALSE, form |-> "none"],
   [valid |-> TRUE, figma |-> FALSE, form |-> "none"]}
    \cup [valid : {TRUE}, figma : {TRUE}, form : FigmaPatterns \cup {"none"}]

\* extractFigmaIds: some pattern matches (otherwise it throws).
HasFigmaIds(url) == url.form \in FigmaPatterns

\* A fetch that was started and has not settled, and the same fetch settled.
Pending(to) == [to |-> to, answer |-> "pending"]
Settled(fetched, answer) == [fetched EXCEPT ![Len(fetched)].answer = answer]

\* The errors, each message kept in its parts: the catch block of
\* downloadImage puts 'Failed to download image' before the message of the
\* error it caught, the catch block of convertFigmaUrlToImageUrl puts
\* 'Failed to convert Figma URL to image URL' before it.
DownloadError(parts) == ErrorOf(<<"Failed to download image">> \o parts, FALSE)
ConversionError(parts) ==
  DownloadError(<<"Failed to convert Figma URL to image URL">> \o parts)

\* Faulty variant: no URL is converted.
NeedsConversionNever(url) == FALSE

\* if (imageUrl.includes('figma.com'))
NeedsConversion(url) == url.figma

\* What the Figma images API, the Figma page and the image URL can answer.
ApiOutcomes == {"image_url", "no_entry", "not_ok", "rejects"}
PageOutcomes == {"png_url", "no_png", "not_ok", "rejects"}
ImageOutcomes == {"image", "empty", "http_error", "not_image"}

\* The content written for a fetched image.
Downloaded(outcome) == IF outcome = "empty" THEN EmptyFile ELSE Solid(50, 50, "white")

InitDownload ==
  /\ IdleServer
  /\ IdleRetry
  /\ IdleTimed
  /\ page = InitialPage
  /\ browser = NoBrowserCall
  /\ tol = NoToleranceCall
  /\ \E url \in DownloadUrls, before \in {NoFile, Solid(50, 50, "black")} :
       dl = [pc |-> "called", url |-> url, fetched |-> <<>>, yielded |-> {},
             error |-> NoError, before |-> before, out |-> before,
             buffer |-> NoFile]

\* The call up to its first await: the URL is validated; a URL with
\* 'figma.com' goes to convertFigmaUrlToImageUrl, which extracts the ids
\* (and throws if no pattern matches) and fetches the images API; any other
\* URL goes straight to fs.ensureDir.
DownloadCall ==
  /\ dl.pc = "called"
  /\ IF ~dl.url.valid
     THEN dl' = [dl EXCEPT !.pc = "thrown",
                           !.error = DownloadError(<<"Invalid image URL provided">>)]
     ELSE IF NeedsConversion(dl.url)
     THEN IF HasFigmaIds(dl.url)
          THEN dl' = [dl EXCEPT !.pc = "api", !.fetched = Append(@, Pending("api"))]
          ELSE dl' = [dl EXCEPT !.pc = "thrown",
                                !.error = ConversionError(<<"Invalid Figma URL format">>)]
     ELSE dl' = [dl EXCEPT !.pc = "ensureDir"]
  /\ UNCHANGED <<serverVars, retryVars, timedVars, page, browser, tol>>

\* Approach 1 settles.  A response that is ok and has data.images[nodeId]
\* returns that URL; every other outcome (not ok, no entry, a rejected fetch
\* or json, swallowed by the inner catch) goes on to fetch the Figma page.
ApiSettles ==
  /\ dl.pc = "api"
  /\ \E outcome \in ApiOutcomes :
       IF outcome = "image_url"
       THEN dl' = [dl EXCEPT !.pc = "ensureDir", !.yielded = @ \cup {"api"},
                             !.fetched = Settled(@, outcome)]
       ELSE dl' = [dl EXCEPT !.pc = "page",
                             !.fetched = Append(Settled(@, outcome), Pending("page"))]
  /\ UNCHANGED <<serverVars, retryVars, timedVars, page, browser, tol>>

\* Approach 2 settles.  A page that is ok and holds an https://...png URL
\* returns it; otherwise the conversion throws 'Unable to convert'.
PageSettles ==
  /\ dl.pc = "page"
  /\ \E outcome \in PageOutcomes :
       IF outcome = "png_url"
       THEN dl' = [dl EXCEPT !.pc = "ensureDir", !.yielded = @ \cup {"page"},
                             !.fetched = Settled(@, outcome)]
       ELSE dl' = [dl EXCEPT !.pc = "thrown",
                             !.fetched = Settled(@, outcome),
                             !.error = ConversionError(<<"Unable to convert Figma URL to image">>)]
  /\ UNCHANGED <<serverVars, retryVars, timedVars, page, browser, tol>>

\* await fs.ensureDir(outputDir) resolves; the image URL is fetched.
EnsureDir ==
  /\ dl.pc = "ensureDir"
  /\ dl' = [dl EXCEPT !.pc = "image", !.fetched = Append(@, Pending("image"))]
  /\ UNCHANGED <<serverVars, retryVars, timedVars, page, browser, tol>>

\* The fetch of the image settles: a response that is not ok or whose
\* content type is not image/* makes downloadImage throw; otherwise the
\* buffer is read and fs.writeFile is started.
ImageSettles ==
  /\ dl.pc = "image"
  /\ \E outcome \in ImageOutcomes :
       IF outcome = "http_error"
       THEN dl' = [dl EXCEPT !.pc = "thrown",
                             !.fetched = Settled(@, outcome),
                             !.error = DownloadError(<<"Failed to download image", "status">>)]
       ELSE IF outcome = "not_image"
       THEN dl' = [dl EXCEPT !.pc = "thrown",
                             !.fetched = Settled(@, outcome),
                             !.error = DownloadError(<<"URL does not point to an image">>)]
       ELSE dl' = [dl EXCEPT !.pc = "write", !.fetched = Settled(@, outcome),
                             !.buffer = Downloaded(outcome)]
  /\ UNCHANGED <<serverVars, retryVars, timedVars, page, browser, tol>>

\* fs.writeFile resolves; fs.stat finds the file empty or not.
WriteFile ==
  /\ dl.pc = "write"
  /\ IF dl.buffer = EmptyFile
     THEN dl' = [dl EXCEPT !.pc = "thrown", !.out = dl.buffer,
                           !.error = DownloadError(<<"Downloaded image file is empty">>)]
     ELSE dl' = [dl EXCEPT !.pc = "returned", !.out = dl.buffer]
  /\ UNCHANGED <<serverVars, retryVars, timedVars, page, browser, tol>>

NextDownload ==
  DownloadCall \/ ApiSettles \/ PageSettles \/ EnsureDir \/ ImageSettles \/ WriteFile

SpecDownload == InitDownload /\ [][NextDownload]_vars

\* ---------------------------------------------------------- the client page
\* The Index component: its state, its event handlers and what it renders.
\* A text field holds the empty string or some text; figmaFile is "null" or
\* the selected file.
FigmaUrlTexts == {"", "https://example.com/design.png"}
PageUrlTexts == {"", "https://example.com/"}
SelectedFile == "design.png"

\* What the file input hands to handleFileChange: an image file, a file of
\* another type, or no file.
FileSelections == {"image", "other", "none"}

\* The messages an error can carry into setError.
NetworkMessage == "Failed to fetch"
ServerMessage == "message of the server's error body"
DefaultMessage == "Failed to compare images"
ParseMessage == "Unexpected token < in JSON"

\* Faulty variant of the button: it is not disabled while comparing.
ButtonDisabledNotWhileComparing(p) ==
  \/ p.pageUrl = ""
  \/ (p.inputMethod = "url" /\ p.figmaUrl = "")
  \/ (p.inputMethod = "file" /\ p.figmaFile = "null")

\* disabled={!pageUrl || isComparing || (inputMethod === "url" && !figmaUrl)
\*           || (inputMethod === "file" && !figmaFile)}
ButtonDisabled(p) ==
  \/ p.pageUrl = ""
  \/ p.isComparing
  \/ (p.inputMethod = "url" /\ p.figmaUrl = "")
  \/ (p.inputMethod = "file" /\ p.figmaFile = "null")

\* What the component renders: the input form while !showResults, else the
\* results section, in which the error alert is rendered if error is not
\* empty and the score if comparisonResult is not null.
Render(p) ==
  [form |-> ~p.showResults,
   errorAlert |-> p.showResults /\ p.error # "",
   score |-> p.showResults /\ p.comparisonResult # "null"]

\* The request handleCompare sends.
RequestOf(p) ==
  IF p.inputMethod = "file" /\ p.figmaFile # "null"
  THEN [path |-> "/compare-file", ref |-> p.figmaFile, pageUrl |-> p.pageUrl,
        phase |-> "fetch"]
  ELSE [path |-> "/compare", ref |-> p.figmaUrl, pageUrl |-> p.pageUrl,
        phase |-> "fetch"]

\* A sequence without its i-th element.
Without(seq, i) == SubSeq(seq, 1, i - 1) \o SubSeq(seq, i + 1, Len(seq))

\* catch: setError(err.message); finally: setIsComparing(false).  The call
\* of handleCompare that made request i is over.
Failed(p, i, message) ==
  [p EXCEPT !.error = message, !.isComparing = FALSE, !.requests = Without(@, i)]

\* setComparisonResult(result); setShowResults(true); finally:
\* setIsComparing(false).
Succeeded(p, i) ==
  [p EXCEPT !.comparisonResult = "result", !.showResults = TRUE,
            !.isComparing = FALSE, !.requests = Without(@, i)]

InitPage ==
  /\ IdleServer
  /\ IdleRetry
  /\ IdleTimed
  /\ page = InitialPage
  /\ browser = NoBrowserCall
  /\ tol = NoToleranceCall
  /\ dl = NoDownloadCall

\* The user types into the Figma URL field (rendered in the URL tab of the
\* form, disabled while comparing).
TypeFigmaUrl ==
  /\ Render(page).form
  /\ page.inputMethod = "url"
  /\ ~page.isComparing
  /\ \E text \in FigmaUrlTexts \ {page.figmaUrl} : page' = [page EXCEPT !.figmaUrl = text]
  /\ UNCHANGED <<serverVars, retryVars, timedVars, browser, tol, dl>>

\* The user types into the page URL field.
TypePageUrl ==
  /\ Render(page).form
  /\ ~page.isComparing
  /\ \E text \in PageUrlTexts \ {page.pageUrl} : page' = [page EXCEPT !.pageUrl = text]
  /\ UNCHANGED <<serverVars, retryVars, timedVars, browser, tol, dl>>

\* The user switches between the URL tab and the file tab.
SetInputMethod ==
  /\ Render(page).form
  /\ page' = [page EXCEPT !.inputMethod = IF @ = "url" THEN "file" ELSE "url"]
  /\ UNCHANGED <<serverVars, retryVars, timedVars, browser, tol, dl>>

\* handleFileChange: an image file is kept (and the URL and the error are
\* cleared); anything else sets an error and clears the file.
HandleFileChange ==
  /\ Render(page).form
  /\ page.inputMethod = "file"
  /\ ~page.isComparing
  /\ \E selection \in FileSelections :
       IF selection = "image"
       THEN page' = [page EXCEPT !.figmaFile = SelectedFile, !.figmaUrl = "", !.error = ""]
       ELSE page' = [page EXCEPT !.error = "Please select a valid image file (PNG, JPG, etc.)",
                                 !.figmaFile = "null"]
  /\ UNCHANGED <<serverVars, retryVars, timedVars, browser, tol, dl>>

\* A click on the Compare button: handleCompare runs up to its await of
\* fetch.
HandleCompare ==
  /\ Render(page).form
  /\ ~ButtonDisabled(page)
  /\ page' = [page EXCEPT !.isComparing = TRUE, !.error = "",
                          !.requests = Append(@, RequestOf(page))]
  /\ UNCHANGED <<serverVars, retryVars, timedVars, browser, tol, dl>>

\* The fetch of request i settles: it rejects (network error), or resolves
\* with a response that is ok or not; handleCompare then awaits
\* response.json().
FetchSettles ==
  /\ \E i \in 1..Len(page.requests) :
       /\ page.requests[i].phase = "fetch"
       /\ \/ page' = Failed(page, i, NetworkMessage)
          \/ \E phase \in {"json of ok", "json of error"} :
               page' = [page EXCEPT !.requests[i].phase = phase]
  /\ UNCHANGED <<serverVars, retryVars, timedVars, browser, tol, dl>>

\* response.json() of request i settles.  For a response that is not ok
\* the error thrown carries errorData.message or the default message; a body
\* that is not JSON makes json() reject either way.
JsonSettles ==
  /\ \E i \in 1..Len(page.requests) :
       \/ /\ page.requests[i].phase = "json of ok"
          /\ \/ page' = Succeeded(page, i)
             \/ page' = Failed(page, i, ParseMessage)
       \/ /\ page.requests[i].phase = "json of error"
          /\ \E message \in {ServerMessage, DefaultMessage, ParseMessage} :
               page' = Failed(page, i, message)
  /\ UNCHANGED <<serverVars, retryVars, timedVars, browser, tol, dl>>

\* A click on the button of the results section that leads back to the
\* form.
NewComparison ==
  /\ ~Render(page).form
  /\ page' = [page EXCEPT !.showResults = FALSE, !.comparisonResult = "null", !.error = ""]
  /\ UNCHANGED <<serverVars, retryVars, timedVars, browser, tol, dl>>

NextPage ==
  \/ TypeFigmaUrl
  \/ TypePageUrl
  \/ SetInputMethod
  \/ HandleFileChange
  \/ HandleCompare
  \/ FetchSettles
  \/ JsonSettles
  \/ NewComparison

SpecPage == InitPage /\ [][NextPage]_vars

\* ------------------------------------- takeScreenshot and its browser
\* takeScreenshotWithRetry calling takeScreenshot, in the standard version
\* and in the free-tier version.  takeScreenshot launches a browser, loads
\* the page, optionally waits for a selector, captures, and closes the
\* browser in `finally`.
ScreenshotFunctions == {"takeScreenshotWithRetry", "takeScreenshotWithRetry (free tier)"}

\* catch: throw new Error(`Failed to take screenshot: ${error.message}`)
ScreenshotError(message) == ErrorOf(<<"Failed to take screenshot", message>>, FALSE)

\* The error with which browser.close() rejects.
CloseError == ErrorOf(<<"Protocol error (Browser.close)">>, FALSE)

\* The free-tier version catches a timeout of page.waitForSelector and goes
\* on; the standard version lets it reach the catch block.
SelectorTimeoutIsCaught(f) == f = "takeScreenshotWithRetry (free tier)"

\* The free-tier version wraps browser.close() in try/catch; the standard
\* version awaits it bare inside `finally`.
CloseErrorIsCaught(f) == f = "takeScreenshotWithRetry (free tier)"

\* The loop goes to its next iteration, or ends and the function throws.
NextAttempt(b) ==
  [b EXCEPT !.attempt = @ + 1,
            !.pc = IF LoopCondition(b.attempt + 1, b.maxRetries) THEN "launch" ELSE "thrown"]

\* A call of takeScreenshot throws `error`, the failure inside its try
\* block having been `failure` ("" if there was none): the catch block of
\* the loop takes it and waits or goes on.
CallThrows(b, error) ==
  LET caughtCall == [b EXCEPT !.thrown = Append(@, [failure |-> b.failure, error |-> error]),
                              !.launched = FALSE,
                              !.failure = ""]
  IN IF WaitsBeforeRetry(b.attempt, b.maxRetries)
     THEN [caughtCall EXCEPT !.pc = "wait"]
     ELSE NextAttempt(caughtCall)

\* A step inside the try block fails: the catch block builds the error to
\* throw and `finally` starts closing the browser.
StepFails(b, message) == [b EXCEPT !.failure = message, !.pc = "close"]

InitBrowser ==
  /\ IdleServer
  /\ IdleRetry
  /\ IdleTimed
  /\ page = InitialPage
  /\ tol = NoToleranceCall
  /\ dl = NoDownloadCall
  /\ \E f \in ScreenshotFunctions, selector \in BOOLEAN,
        given \in {<<>>} \cup {<<n>> : n \in 1..MaxMaxRetries} :
       browser = [pc |-> "launch",
                  function |-> f,
                  waitForSelector |-> selector,
                  maxRetries |-> IF given = <<>> THEN DefaultMaxRetries(f) ELSE given[1],
                  attempt |-> 1,
                  launched |-> FALSE,
                  open |-> 0,
                  failure |-> "",
                  thrown |-> <<>>]

\* takeScreenshot is called: puppeteer.launch resolves with a browser or
\* rejects.  If it rejects, `browser` is still null and `finally` closes
\* nothing.
Launch ==
  /\ browser.pc = "launch"
  /\ \/ browser' = [browser EXCEPT !.pc = "navigate", !.launched = TRUE, !.open = @ + 1]
     \/ browser' = CallThrows([browser EXCEPT !.failure = "Failed to launch the browser process"],
                              ScreenshotError("Failed to launch the browser process"))
  /\ UNCHANGED <<serverVars, retryVars, timedVars, page, tol, dl>>

\* page.goto settles: the page loads, or the response is not ok, or the
\* navigation times out.
Navigate ==
  /\ browser.pc = "navigate"
  /\ \/ browser' = [browser EXCEPT !.pc = IF browser.waitForSelector
                                          THEN "selector" ELSE "capture"]
     \/ \E message \in {"Failed to load page", "Navigation timeout"} :
          browser' = StepFails(browser, message)
  /\ UNCHANGED <<serverVars, retryVars, timedVars, page, tol, dl>>

\* page.waitForSelector settles: the element appears, or the wait times out.
WaitForSelector ==
  /\ browser.pc = "selector"
  /\ \/ browser' = [browser EXCEPT !.pc = "capture"]
     \/ IF SelectorTimeoutIsCaught(browser.function)
        THEN browser' = [browser EXCEPT !.pc = "capture"]
        ELSE browser' = StepFails(browser, "Waiting for selector failed")
  /\ UNCHANGED <<serverVars, retryVars, timedVars, page, tol, dl>>

\* page.screenshot and fs.stat settle: the file is written and has content,
\* or the screenshot fails, or the file is empty.  `finally` then closes the
\* browser.
Capture ==
  /\ browser.pc = "capture"
  /\ \/ browser' = [browser EXCEPT !.pc = "close"]
     \/ \E message \in {"Screenshot failed", "Screenshot file is empty"} :
          browser' = StepFails(browser, message)
  /\ UNCHANGED <<serverVars, retryVars, timedVars, page, tol, dl>>

\* The call of takeScreenshot ends after `finally`: it returns if the try
\* block succeeded, else it throws the error built in the catch block.
CallEnds(b) ==
  IF b.failure = ""
  THEN [b EXCEPT !.pc = "returned", !.launched = FALSE]
  ELSE CallThrows(b, ScreenshotError(b.failure))

\* browser.close() settles.  If it resolves the browser is closed.  If it
\* rejects the browser is closed or not, and the rejection leaves `finally`
\* (replacing the error or the return of the call) unless it is caught.
Close ==
  /\ browser.pc = "close"
  /\ \/ browser' = CallEnds([browser EXCEPT !.open = @ - 1])
     \/ \E stillOpen \in BOOLEAN :
          LET left == [browser EXCEPT !.open = IF stillOpen THEN @ ELSE @ - 1]
          IN browser' = IF CloseErrorIsCaught(browser.function)
                        THEN CallEnds(left)
                        ELSE CallThrows(left, CloseError)
  /\ UNCHANGED <<serverVars, retryVars, timedVars, page, tol, dl>>

\* The timer of the backoff fires: the loop goes on.
BackoffEnds ==
  /\ browser.pc = "wait"
  /\ browser' = NextAttempt(browser)
  /\ UNCHANGED <<serverVars, retryVars, timedVars, page, tol, dl>>

NextBrowser ==
  Launch \/ Navigate \/ WaitForSelector \/ Capture \/ Close \/ BackoffEnds

SpecBrowser == InitBrowser /\ [][NextBrowser]_vars

\* ================================================================= claims
ServedImages == {"figma.png", "code.png", "diff.png"}

\* The reports a request would get from its own reference image and its own
\* screenshot (one per load order of the two files).
OwnReports(r) ==
  {Report(ComparisonResult(RunComparison(inp[r].ref.img, inp[r].page.img, <<>>, first))) :
     first \in {1, 2}}

\* C1: every report returned to a request is the comparison of that
\* request's own reference image with that request's own screenshot, also
\* when the handling of two requests overlaps.
C1_ReportFromOwnImages ==
  \A r \in Reqs : resp[r].status = 200 => resp[r] \in OwnReports(r)

\* C2: in every success report matchScore + misMatchPercentage = 100.00.
C2_ScoresSumTo100 ==
  \A r \in Reqs :
    resp[r].status = 200 =>
      /\ ~resp[r].matchScore.nan
      /\ ~resp[r].misMatchPercentage.nan
      /\ resp[r].matchScore.hund + resp[r].misMatchPercentage.hund = 10000

\* C3: a report is returned only on full success: the reference image was
\* acquired, the screenshot was captured, the comparison produced a numeric
\* mismatch percentage and this request's diff image was written.
C3_ReportOnlyOnFullSuccess ==
  \A r \in Reqs :
    resp[r].status = 200 =>
      /\ "figma.png" \in wrote[r]
      /\ "code.png" \in wrote[r]
      /\ result[r].misMatchPercentage.t = "number"
      /\ "diff.png" \in wrote[r]

\* The dimensions of the two files given to compareImages differ.
DimensionsDiffer ==
  /\ files["figma.png"].ok
  /\ files["code.png"].ok
  /\ (files["figma.png"].w # files["code.png"].w
      \/ files["figma.png"].h # files["code.png"].h)

Finished(r) == pc[r] = "done"

\* C4: compareImages called with scaleToSameSize = false on two images of
\* different dimensions fails and writes no diff image.  (In SpecDirect a
\* failure of compareImages is the caller's error response.)
C4_DimensionMismatchFails ==
  ( /\ Finished(TheCaller)
    /\ "scaleToSameSize" \in DOMAIN options
    /\ ~MergeOptions(defaultOptions, options).scaleToSameSize
    /\ DimensionsDiffer )
  => /\ resp[TheCaller].status = 500
     /\ "diff.png" \notin wrote[TheCaller]

\* The reference of the request cannot be acquired or is not a valid image.
BadReference(i) ==
  \/ i.ref.fail \in {"not_downloadable", "not_image", "empty"}
  \/ (i.ref.fail = "none" /\ ~i.ref.img.ok)

\* C5: a request whose reference image cannot be acquired or is not a valid
\* image is answered with a 4xx client error.
C5_BadReferenceIs4xx ==
  \A r \in Reqs :
    (Finished(r) /\ BadReference(inp[r])) => resp[r].status \in 400..499

\* The request lacks its reference (URL or file) or its page URL.
LacksParameter(i) == i.ref.fail = "missing" \/ i.page.fail = "missing"

\* multer's fileFilter rejected the upload of this request.
UploadRejected(i) == i.kind = "compare-file" /\ i.ref.fail = "not_image"

NothingStarted(r) ==
  /\ started[r] = {}
  /\ wrote[r] \cap ServedImages = {}

C7_ReportedImagesServed ==
  \A r \in Reqs :
    resp[r].status = 200 =>
      /\ \A f \in ServedImages : files[f] # NoFile
      /\ resp[r].figma = "/figma.png"
      /\ resp[r].code = "/code.png"
      /\ resp[r].diffImagePath = "/diff.png"

\* The two files given to compareImages are the same valid image.
IdenticalImages ==
  /\ files["figma.png"].ok
  /\ files["figma.png"] = files["code.png"]

\* C8: identical reference and candidate images give misMatchPercentage 0
\* and matchScore 100.00, whatever the options.
C8_IdenticalImagesMatch ==
  IdenticalImages =>
    /\ Finished(TheCaller) =>
         /\ result[TheCaller].misMatchPercentage = Num(0)
         /\ resp[TheCaller].status = 200
         /\ resp[TheCaller].misMatchPercentage = Str2(0)
         /\ resp[TheCaller].matchScore = Str2(10000)

\* C8 witness: a report for two identical large images compared without
\* scaling and with an output setting of the caller's.
C8_Witness ==
  /\ IdenticalImages
  /\ files["figma.png"].w = ViewportWidth
  /\ resp[TheCaller].status = 200
  /\ DOMAIN options = {"ignore", "scaleToSameSize", "output"}
  /\ ~options.scaleToSameSize
  /\ options.ignore = {"antialiasing"}

\* The two files are a pure black and a pure white image of the same size.
BlackVersusWhite ==
  /\ files["figma.png"].ok
  /\ files["code.png"].ok
  /\ files["figma.png"].c = "black"
  /\ files["code.png"].c = "white"
  /\ files["figma.png"].w = files["code.png"].w
  /\ files["figma.png"].h = files["code.png"].h

\* C9: pure black against pure white, colours not ignored, gives
\* misMatchPercentage 100.00 and matchScore 0.00.
C9_BlackVersusWhiteIs100 ==
  ( /\ BlackVersusWhite
    /\ "colors" \notin MergeOptions(defaultOptions, options).ignore
    /\ Finished(TheCaller) )
  => /\ resp[TheCaller].status = 200
     /\ resp[TheCaller].misMatchPercentage = Str2(10000)
     /\ resp[TheCaller].matchScore = Str2(0)

\* clamp(x, 0, 100) in hundredths.
Clamp(h) == Max(0, Min(10000, h))

\* C10: the matchScore of every report is numeric, lies in [0, 100] and
\* equals 100 - misMatchPercentage clamped to that range.
C10_MatchScoreClamped ==
  \A r \in Reqs :
    resp[r].status = 200 =>
      /\ resp[r].matchScore.t = "string"
      /\ ~resp[r].matchScore.nan
      /\ resp[r].matchScore.hund \in 0..10000
      /\ result[r].misMatchPercentage.t = "number"
      /\ resp[r].matchScore.hund = Clamp(10000 - resp[r].misMatchPercentage.hund)

\* A value in units of 0.0001 rounded (half up) to hundredths.
RoundHundredths(v) == (v + 50) \div 100

\* C11: matchScore and misMatchPercentage of every report are decimal
\* strings with two decimals, the computed values rounded (not truncated).
C11_TwoDecimalsRounded ==
  \A r \in Reqs :
    resp[r].status = 200 =>
      /\ ~resp[r].misMatchPercentage.nan
      /\ ~resp[r].matchScore.nan
      /\ resp[r].misMatchPercentage.hund =
           RoundHundredths(result[r].rawMisMatchPercentage.v)
      /\ resp[r].matchScore.hund =
           RoundHundredths(1000000 - result[r].misMatchPercentage.v)

DownloadErrors == {DownloadFailedError, DownloadEmptyError}
ScreenshotErrors == {PageLoadError, ScreenshotEmptyError}

\* C17: a request fails on its download or screenshot step only after that
\* step was tried more than once.
C17_FailedStepWasRetried ==
  \A r \in Reqs :
    resp[r].status = 500 =>
      /\ caught[r] \in DownloadErrors => calls[r].download > 1
      /\ caught[r] \in ScreenshotErrors => calls[r].screenshot > 1

Modes == {"development", "production", "unset"}

\* C18: a 500 response holds a stack trace only when NODE_ENV is
\* 'development'; in every other mode it holds no stack trace and names no
\* path of the server's file system.
C18_ErrorsSanitized ==
  \A r \in Reqs, mode \in Modes :
    resp[r].status = 500 =>
      LET body == ErrorBody(resp[r], caught[r], mode)
      IN /\ body.stack => mode = "development"
         /\ mode # "development" => (~body.stack /\ ~body.paths)

\* The reference of request r could not be acquired (download or copy).
AcquireFailed(r) == caught[r] \in DownloadErrors \cup {CopyError}

ScreenshotFailed(r) == inp[r].page.fail \in {"load_failed", "empty"}

\* C20: within a request the steps run in the order acquire reference,
\* capture screenshot, compare, respond, each only after the previous one
\* succeeded: no screenshot and no comparison after a failed download, no
\* comparison after a failed screenshot, no report without a comparison.
C20_StepsInOrder ==
  \A r \in Reqs :
    /\ "screenshot" \in started[r] =>
         /\ started[r] \cap {"download", "copy"} # {}
         /\ "figma.png" \in wrote[r]
         /\ ~AcquireFailed(r)
    /\ "compare" \in started[r] =>
         /\ "screenshot" \in started[r]
         /\ "code.png" \in wrote[r]
         /\ ~ScreenshotFailed(r)
    /\ result[r] # NoResult => "compare" \in started[r]
    /\ resp[r].status = 200 => result[r] # NoResult
    /\ AcquireFailed(r) /\ Finished(r) =>
         /\ resp[r].status = 500
         /\ calls[r].screenshot = 0
         /\ result[r] = NoResult
    /\ ScreenshotFailed(r) /\ Finished(r) /\ calls[r].screenshot > 0 =>
         /\ resp[r].status = 500
         /\ result[r] = NoResult

\* C20 witness: one request went through all four steps and got its report
\* and another failed in its screenshot after acquiring its reference.
C20_Witness ==
  \E r \in Reqs, q \in Reqs :
    /\ resp[r].status = 200
    /\ started[r] = {"download", "screenshot", "compare"}
    /\ ScreenshotFailed(q)
    /\ calls[q].screenshot = 1
    /\ resp[q].status = 500

Abs(n) == IF n < 0 THEN -n ELSE n

\* C12: with scaleToSameSize enabled, two images of different dimensions
\* give a result with isSameDimensions = false and a dimension difference
\* (|wA - wB|, |hA - hB|) of the original images.
C12_OriginalDimensionsReported ==
  ( /\ Finished(TheCaller)
    /\ DimensionsDiffer
    /\ MergeOptions(defaultOptions, options).scaleToSameSize )
  => /\ result[TheCaller].isSameDimensions = FALSE
     /\ result[TheCaller].dimensionDifference =
          [width |-> Abs(files["figma.png"].w - files["code.png"].w),
           height |-> Abs(files["figma.png"].h - files["code.png"].h)]

\* C19: every option the caller does not give keeps its default in the
\* options compareImages uses, the fields of `output` included.
C19_UnspecifiedOptionsKeepDefaults ==
  result[TheCaller] # NoResult =>
    LET comparisonOptions == MergeOptions(defaultOptions, options)
    IN /\ \A k \in DOMAIN defaultOptions :
            k \notin DOMAIN options => comparisonOptions[k] = defaultOptions[k]
       /\ "output" \in DOMAIN options =>
            \A k \in DOMAIN defaultOptions.output :
              k \notin DOMAIN options.output =>
                /\ k \in DOMAIN comparisonOptions.output
                /\ comparisonOptions.output[k] = defaultOptions.output[k]

\* The events of one kind in the log of the retry loop.
Events(kind) == SelectSeq(log, LAMBDA x : x.e = kind)

\* C15: with maxRetries >= 1 the operation is called at most maxRetries
\* times; the function returns at the first call that succeeds, with no
\* call after it; when maxRetries calls have failed it throws an error that
\* reports maxRetries and the message of the last failed call.
C15_BoundedRetry ==
  /\ maxRetries >= 1
  /\ Len(Events("call")) <= maxRetries
  /\ Len(Events("fail")) <= Len(Events("call"))
  /\ \A i \in 1..Len(Events("call")) : Events("call")[i].k = i
  /\ retryPc = "returned" =>
       /\ log[Len(log)].e = "call"
       /\ Len(Events("fail")) = Len(Events("call")) - 1
       /\ retryError = NoError
  /\ retryPc = "thrown" =>
       /\ Len(Events("call")) = maxRetries
       /\ Len(Events("fail")) = maxRetries
       /\ retryError.message[2] = maxRetries
       /\ retryError.message[4] = log[Len(log)].message
  /\ retryPc \in {"call", "wait"} => Len(Events("fail")) = Len(Events("call"))

\* C15 witness: the function threw after three failed calls whose last
\* message differs from the earlier ones.
C15_Witness ==
  /\ retryPc = "thrown"
  /\ maxRetries = 3
  /\ Len(Events("call")) = 3
  /\ Events("fail")[1].message # Events("fail")[3].message
  /\ retryError.message[4] = Events("fail")[3].message

\* The factor the claim names for each function, in milliseconds.
ClaimedFactor(f) == IF f = "takeScreenshotWithRetry (free tier)" THEN 500 ELSE 1000

\* C16: a wait occurs only between a failed attempt k and attempt k+1 and
\* lasts 2^k times the factor of the function; there is no wait before the
\* first attempt, after a successful attempt or after the last failed one.
C16_ExponentialBackoff ==
  /\ \A i \in 1..Len(log) :
       log[i].e = "wait" =>
         /\ i > 1
         /\ log[i - 1].e = "fail"
         /\ log[i - 1].k = log[i].k
         /\ log[i].k < maxRetries
         /\ log[i].ms = (2 ^ log[i].k) * ClaimedFactor(fn)
         /\ i < Len(log) => (log[i + 1].e = "call" /\ log[i + 1].k = log[i].k + 1)
  /\ \A i \in 1..Len(log) :
       (log[i].e = "fail" /\ log[i].k < maxRetries) =>
         (i < Len(log) /\ log[i + 1].e = "wait")
  /\ \A i \in 1..Len(log) :
       (log[i].e = "call" /\ i > 1) => log[i - 1].e = "wait"
  /\ retryPc = "returned" => log[Len(log)].e = "call"
  /\ retryPc = "thrown" => log[Len(log)].e = "fail"

\* C16 witness: the free-tier function succeeded at its third attempt after
\* waits of 1000 ms and 2000 ms.
C16_Witness ==
  /\ retryPc = "returned"
  /\ fn = "takeScreenshotWithRetry (free tier)"
  /\ Len(Events("wait")) = 2
  /\ Events("wait")[1].ms = 2 * ClaimedFactor(fn)
  /\ Events("wait")[2].ms = 4 * ClaimedFactor(fn)

\* ISO timestamps compare as their strings do.
IsoLeq(a, b) == a.s < b.s \/ (a.s = b.s /\ a.ms <= b.ms)

\* C13: the analysisTime of a report is the time at which the report is
\* built, after the comparison completed, not the time recorded in the
\* comparison result; a report built again from the same result carries the
\* time of its own building, never an earlier one.
C13_TimestampAtReportTime ==
  /\ Len(reports) > 0 => result[TheCaller] # NoResult
  /\ \A i \in 1..Len(reports) :
       /\ reports[i].analysisTime.s * 1000 + reports[i].analysisTime.ms = builtAt[i]
       /\ IsoLeq(resultTime, reports[i].analysisTime)
       /\ reports[i].report = Report(result[TheCaller])
  /\ \A i \in 1..(Len(reports) - 1) :
       /\ IsoLeq(reports[i].analysisTime, reports[i + 1].analysisTime)
       /\ builtAt[i] < builtAt[i + 1] =>
            reports[i].analysisTime # reports[i + 1].analysisTime

\* C13 witness: two reports were built from one result at two later times,
\* the second in the next second of the clock.
C13_Witness ==
  /\ Len(reports) = 2
  /\ resultTime # reports[1].analysisTime
  /\ reports[1].analysisTime # reports[2].analysisTime
  /\ reports[1].analysisTime.s = 0
  /\ reports[2].analysisTime.s = 1

\* Request r sent a file that multer stored as assets/figma-upload.png.
Uploaded(r) == inp[r].kind = "compare-file" /\ "figma-upload.png" \in wrote[r]

\* No request other than r stored an upload.
OnlyUploader(r) == \A q \in Reqs \ {r} : "figma-upload.png" \notin wrote[q]

\* C23: once a /compare-file request has been answered (200, 400 or 500),
\* the temporary file it uploaded has been removed.  (Stated for a request
\* that is the only one to have uploaded, so the file is its own.)
C23_UploadRemovedAfterAnswer ==
  \A r \in Reqs :
    (Uploaded(r) /\ resp[r] # NoResponse /\ OnlyUploader(r)) =>
      files["figma-upload.png"] = NoFile

\* C24: the fs.copy of a /compare-file request copies to figma.png the file
\* that this request uploaded and does not fail, whatever a concurrent
\* request did to figma-upload.png.
C24_CopiesOwnUpload ==
  [][\A r \in Reqs :
       Copy(r) => /\ files'["figma.png"] = inp[r].ref.img
                  /\ caught'[r] # CopyError]_vars

\* No handler is between two steps.
Quiescent == \A r \in Reqs : pc[r] \in {"idle", "done"}

\* C25: whenever figma.png, code.png and diff.png are all served (and no
\* request is being handled), diff.png is the diff computed from the stored
\* figma.png and code.png.
C25_ServedImagesFromOneRequest ==
  (Quiescent /\ \A f \in ServedImages : files[f] # NoFile) =>
    diffOf = <<files["figma.png"], files["code.png"]>>

\* One of the two paths given to compareImages does not exist.
MissingPath == files["figma.png"] = NoFile \/ files["code.png"] = NoFile

\* C28: compareImages called with a path that does not exist fails with the
\* 'Image comparison failed: ... image not found' error of the first missing
\* path; resemble is never started, no result is produced and diff.png is
\* neither created nor written.
C28_MissingImageFails ==
  (MissingPath /\ "compare" \in started[TheCaller]) =>
    /\ pc[TheCaller] = "done"
    /\ caught[TheCaller] =
         (IF files["figma.png"] = NoFile THEN FirstImageNotFound ELSE SecondImageNotFound)
    /\ resp[TheCaller].status = 500
    /\ result[TheCaller] = NoResult
    /\ "diff.png" \notin wrote[TheCaller]
    /\ files["diff.png"] = NoFile

\* C28 witness: the first image exists and decodes, the second path does
\* not exist, and the call has failed.
C28_Witness ==
  /\ files["figma.png"].ok
  /\ files["code.png"] = NoFile
  /\ "compare" \in started[TheCaller]
  /\ caught[TheCaller] = SecondImageNotFound

\* The responses a comparison request can get.
ComparisonResponses == {200, 400, 500}

\* C21, safety part: a response, once sent, is never replaced by another.
C21_AtMostOneResponse ==
  [][\A r \in Reqs : resp[r] # NoResponse => resp'[r] = resp[r]]_vars

\* C21, liveness part: a request that has arrived is eventually answered
\* with 200, 400 or 500, and its handler is then finished.
C21_EventuallyAnswered ==
  \A r \in Reqs :
    (pc[r] # "idle") ~> (Finished(r) /\ resp[r].status \in ComparisonResponses)

\* C21: every request to /compare or /compare-file eventually receives
\* exactly one response - 400, 500 or 200 - never none and never two.
C21_ExactlyOneResponse == C21_AtMostOneResponse /\ C21_EventuallyAnswered

\* C21 witness: one request was answered 200 and another 500 after its
\* copy failed, both handlers finished.
C21_Witness ==
  \E r \in Reqs, q \in Reqs :
    /\ Finished(r) /\ resp[r].status = 200
    /\ Finished(q) /\ resp[q].status = 500 /\ caught[q] = CopyError

\* m <= t on JS numbers.
NumberLeq(m, t) == m.t = "number" /\ t.t = "number" /\ m.v <= t.v

\* The tolerance in force: the one passed, or 5.
ToleranceInForce == IF tol.arg = <<>> THEN Num(50000) ELSE tol.arg[1]

\* C29: compareImagesWithTolerance returns passed = true and status 'PASS'
\* exactly when the comparison's misMatchPercentage is <= tolerance (default
\* 5), and passed = false and status 'FAIL' otherwise; passed, status and
\* message agree; every field of the comparison result is kept unchanged.
C29_ToleranceVerdict ==
  tol.returned # <<>> =>
    LET returned == tol.returned[1]
        within == NumberLeq(result[TheCaller].misMatchPercentage, ToleranceInForce)
    IN /\ returned.tolerance = ToleranceInForce
       /\ returned.passed = within
       /\ returned.status = (IF within THEN "PASS" ELSE "FAIL")
       /\ returned.message[1] =
            (IF returned.passed THEN "Images match within tolerance"
             ELSE "Images exceed tolerance")
       /\ returned.message[2] = ToleranceInForce
       /\ \A k \in DOMAIN result[TheCaller] : returned[k] = result[TheCaller][k]

\* C29 witness: a mismatch of 69.44 met a tolerance of 69.44 and passed.
C29_Witness ==
  /\ tol.returned # <<>>
  /\ tol.arg = <<Num(694400)>>
  /\ result[TheCaller].misMatchPercentage = Num(694400)
  /\ tol.returned[1].status = "PASS"

\* The fetches made so far, as a set.
Fetched == {dl.fetched[i].to : i \in 1..Len(dl.fetched)}

\* The call of downloadImage has returned or thrown.
DownloadSettled == dl.pc \in {"returned", "thrown"}

\* C30: downloadImage converts the URL only when it contains 'figma.com'
\* and otherwise fetches it directly; for a Figma URL the images API is asked
\* first and the Figma page only after the API yielded no image URL; when
\* neither yields one, or no pattern matches the URL, the call fails with a
\* 'Failed to download image' error, no image was fetched and the output
\* file is as it was.
C30_FigmaConversion ==
  /\ ~dl.url.figma => Fetched \subseteq {"image"}
  /\ (dl.url.valid /\ ~dl.url.figma /\ dl.pc \in {"image", "write", "returned"}) =>
       (Len(dl.fetched) = 1 /\ dl.fetched[1].to = "image")
  /\ (dl.url.figma /\ dl.fetched # <<>>) => dl.fetched[1].to = "api"
  /\ "page" \in Fetched =>
       /\ dl.fetched[1].answer \notin {"pending", "image_url"}
       /\ dl.fetched[2].to = "page"
  /\ "api" \in dl.yielded => "page" \notin Fetched
  /\ (dl.url.figma /\ "image" \in Fetched) => dl.yielded # {}
  /\ (dl.url.figma /\ DownloadSettled
        /\ (dl.url.form \notin {"design", "file", "proto", "community/file"}
            \/ dl.yielded = {})) =>
       /\ dl.pc = "thrown"
       /\ dl.error.message[1] = "Failed to download image"
       /\ "image" \notin Fetched
       /\ dl.out = dl.before

\* C30 witness: for a Figma URL the API yielded nothing, the page was
\* fetched and yielded nothing either, and the call has thrown, an output
\* file of an earlier download being in place.
C30_Witness ==
  /\ dl.pc = "thrown"
  /\ dl.url.form = "design"
  /\ Len(dl.fetched) = 2
  /\ dl.fetched[2].to = "page"
  /\ dl.yielded = {}
  /\ dl.before # NoFile

\* A call of handleCompare ends in its catch block: isComparing falls and an
\* error message is stored.
ComparisonFails == page.isComparing /\ ~page'.isComparing /\ page'.error # ""

\* C26: when a comparison request of the client page fails, the state the
\* page reaches renders the error alert with the stored message.
C26_FailureShowsError ==
  [][ComparisonFails => Render(page').errorAlert]_vars

\* C27: isComparing is true exactly while a request started by
\* handleCompare has not settled (so it is false again after success and
\* after failure); at most one request of the page is in flight; no request
\* is sent with an empty page URL or an empty reference.
C27_OneRequestInFlight ==
  /\ page.isComparing <=> page.requests # <<>>
  /\ Len(page.requests) <= 1
  /\ \A i \in 1..Len(page.requests) :
       /\ page.requests[i].pageUrl # ""
       /\ page.requests[i].ref \notin {"", "null"}

\* C27 witness: a comparison with an uploaded file is in flight, its
\* response (not ok) has arrived and its body is being read.
C27_Witness ==
  /\ page.isComparing
  /\ Len(page.requests) = 1
  /\ page.requests[1].path = "/compare-file"
  /\ page.requests[1].phase = "json of error"
  /\ page.figmaUrl = ""

\* No call of takeScreenshot is running.
BetweenCalls == browser.pc \in {"wait", "returned", "thrown"}

\* C22: a call of takeScreenshot that launched a browser has closed it when
\* the call returns or throws, on every path; the error it throws is the
\* 'Failed to take screenshot' error of the failure in its try block; so
\* during takeScreenshotWithRetry at most one browser is open.
C22_BrowserClosedOnEveryPath ==
  browser.pc # "none" =>
    /\ browser.open <= 1
    /\ BetweenCalls => browser.open = 0
    /\ \A i \in 1..Len(browser.thrown) :
         /\ browser.thrown[i].failure # ""
         /\ browser.thrown[i].error =
              ErrorOf(<<"Failed to take screenshot", browser.thrown[i].failure>>, FALSE)

====
